---- MODULE Spec2Model ----
(***************************************************************************)
(* Model of the citi_reserach conversion scripts.                          *)
(*                                                                         *)
(* Each behaviour is one run of one script (variable prog):                *)
(*   fragment_validator.create_fragment_file    fixed-rate generator with  *)
(*                                              a validation section       *)
(*   fragment_abstraction.create_fragment_file  fixed-rate generator       *)
(*   fragment_file_maker.create_fragment_file   one fragment per Excel row *)
(*   task_file_maker.convert_csv_to_parquet     task table from a CSV      *)
(*   parquet_to_csv.parquet_to_csv_chunked      parquet to CSV in batches  *)
(*   input_citi_data_for_specific_dc.csv_to_json  topology hosts of a     *)
(*                                              hardware sheet             *)
(*   input_citi_data_for_all_DC                 ServerSpecRegistry and     *)
(*                                              DataCenterConverter        *)
(*                                                                         *)
(* Representation.                                                         *)
(*  - A Python str is a sequence of character codes; a table id is a       *)
(*    tagged value (IntId / StrId) so that str(7) = "7" differs from 7.    *)
(*  - cpu_capacity is a whole number of MHz, usage_percentage a whole      *)
(*    number of percent; cpu_usage is kept in hundredths of a MHz, so      *)
(*    cpu_capacity * usage_percentage is exact.                            *)
(*  - duration_hours is kept in tenths of an hour (duration_tenths), so    *)
(*    that a duration that 300000 ms does not divide can be passed.        *)
(***************************************************************************)
EXTENDS Integers, Sequences, FiniteSets, TLC

\* ------------------------------------------------------------------ bounds
MaxVMs == 2            \* longest task table read from the task file
MaxPattern == 2        \* number of random.randint outcome patterns explored
MaxRows == 2           \* longest Excel sheet / CSV file
MaxAdds == 2           \* most add_spec calls made on a registry

\* --------------------------------------------------------- program constants
fragment_duration_ms == 300000
NumSyntheticVMs == 10
SyntheticIdBase == 1000
RandLo == 2
RandHi == 16
MsPerTenthHour == 360000
CpuCountText == "Same as the amount of CPUs of the VM it is running on"

\* ------------------------------------------------------------------ strings
\* character codes
ChZero == 48
ChMinus == 45
VmPrefix == <<118, 109, 45>>          \* "vm-"

RECURSIVE Digits(_)
Digits(n) == IF n < 10 THEN <<ChZero + n>> ELSE Digits(n \div 10) \o <<ChZero + (n % 10)>>

\* str(n) for a Python int
IntToStr(n) == IF n < 0 THEN <<ChMinus>> \o Digits(-n) ELSE Digits(n)

\* str(x) for a Python float holding a whole number: "7.0"
FloatToStr(n) == IntToStr(n) \o <<46, ChZero>>

IntId(n) == [tag |-> "int", n |-> n, s |-> <<>>]
StrId(s) == [tag |-> "str", n |-> 0, s |-> s]

\* str(vm['id']) for a row handed out by iterrows(): a row of an int64 id,
\* an integer cpu_count and a float64 cpu_capacity is a float64 Series, so an
\* integer id arrives as a float
PyStr(id) == IF id.tag = "int" THEN FloatToStr(id.n) ELSE id.s

\* Python's == between a table cell and a str: an int never equals a str
EqStr(id, s) == id.tag = "str" /\ id.s = s

\* s < t for Python strings (code point order)
RECURSIVE StrLess(_, _)
StrLess(s, t) ==
    IF t = <<>> THEN FALSE
    ELSE IF s = <<>> THEN TRUE
    ELSE IF Head(s) # Head(t) THEN Head(s) < Head(t)
    ELSE StrLess(Tail(s), Tail(t))

\* -------------------------------------------------------------- sequences
Range(s) == {s[i] : i \in DOMAIN s}

\* s[lo] + ... + s[hi], by halving
RECURSIVE SumRange(_, _, _)
SumRange(s, lo, hi) ==
    IF lo > hi THEN 0
    ELSE IF lo = hi THEN s[lo]
    ELSE LET mid == (lo + hi) \div 2
         IN  SumRange(s, lo, mid) + SumRange(s, mid + 1, hi)

SeqSum(s) == SumRange(s, 1, Len(s))

\* the elements of a finite set of strings in ascending order
RECURSIVE SortStrings(_)
SortStrings(S) ==
    IF S = {} THEN <<>>
    ELSE LET m == CHOOSE x \in S : \A y \in S \ {x} : StrLess(x, y)
         IN  <<m>> \o SortStrings(S \ {m})

\* floor division, Python's //
FloorDiv(a, b) == a \div b

VARIABLES
    prog,               \* which script this run executes
    pc,                 \* position in the script
    outcome,            \* "running", "returned", "none" (returned None), "raised"
    task_file,          \* the task parquet file given as input
    usage_percentage,   \* argument, in percent
    duration_tenths,    \* argument duration_hours, in tenths of an hour
    fragments_per_vm,
    warned,             \* the WARNING about uneven division was printed
    task_df,            \* the resource table in use
    synthetic,          \* task_df came from generate_synthetic_vms
    vm_idx,             \* number of rows the generation loop has done
    all_fragments,
    output_file,        \* the output parquet: [exists, rows]
    validation_results,
    all_pass,           \* "unset", "PASS", "FAIL"
    excel_file,         \* the Excel workbook given to fragment_file_maker
    csv_file,           \* the CSV file given to task_file_maker
    subset_fraction,    \* argument of convert_csv_to_parquet, in percent
    encodings_to_try,
    tried,              \* the encodings read_csv was attempted with, in order
    df,                 \* the frame read from the CSV file
    input_path,         \* the parquet file at parquet_to_csv's input path
    output_path,        \* the directory and CSV file at its output path
    output_before,      \* output_path as it was when the call began
    chunksize,          \* argument of parquet_to_csv_chunked
    write_error_at,     \* the to_csv call that raises (0: none does)
    total_rows,         \* get_parquet_row_count's result, -1 for None
    batch_no,           \* i of the enumerate loop: batches written so far
    total_processed,
    success,            \* "unset", "True", "False": the value returned
    hardware_sheet,     \* the workbook sheet given to csv_to_json
    host_counter,
    storage_counter,
    cluster,            \* cluster['clusters'][0]['hosts']
    specs,              \* ServerSpecRegistry.specs: key -> spec
    add_calls,          \* the add_spec calls made so far, in order
    servers_df,         \* the frame given to process_excel_data
    grouped,            \* its (MANUFACTURER, MODEL) groups with their sizes
    clusters

genVars == <<task_file, usage_percentage, duration_tenths, fragments_per_vm, warned,
             task_df, synthetic, validation_results, all_pass>>

excelVars == <<excel_file>>

csvVars == <<csv_file, subset_fraction, encodings_to_try, tried, df>>

p2cVars == <<input_path, output_path, output_before, chunksize, write_error_at,
             total_rows, batch_no, total_processed, success>>

topoVars == <<hardware_sheet, host_counter, storage_counter, cluster>>

convVars == <<specs, add_calls, servers_df, grouped, clusters>>

dcVars == <<topoVars, convVars>>

vars == <<prog, pc, outcome, vm_idx, all_fragments, output_file,
          genVars, excelVars, csvVars, p2cVars, dcVars>>

\* ------------------------------------------------------- input domains
RequiredColumns(p) ==
    IF p = "fragment_validator" THEN {"id", "cpu_capacity", "cpu_count"}
    ELSE {"id", "cpu_capacity"}

AllTaskColumns == {"id", "cpu_capacity", "cpu_count"}

\* a parquet column has one type: the ids of a task file are all str
\* ("vm-1", "7") or all int64 (7)
StrIdChoices == {StrId(VmPrefix \o <<ChZero + 1>>), StrId(<<ChZero + 7>>)}
IntIdChoices == {IntId(7)}
CapacityChoices == {0, 1000}
CpuCountChoices == {2}

\* the columns whose cell may be missing (read as NaN) in a row
NanChoices == {{"cpu_capacity"}, {"cpu_count"}}

\* a row of the task table; nan names the columns whose cell is NaN in this
\* row (the number kept in such a field is then ignored)
VmChoices(ids) ==
    [id : ids, cpu_count : CpuCountChoices, cpu_capacity : CapacityChoices, nan : {{}}]
    \cup [id : ids, cpu_count : CpuCountChoices, cpu_capacity : {0}, nan : NanChoices]

Tables(n) == UNION {[1..k -> VmChoices(StrIdChoices)] \cup [1..k -> VmChoices(IntIdChoices)] :
                    k \in 0..n}

\* kind "none": the path is None or names no file; "unreadable": read_parquet raises
TaskFileChoices ==
    {[kind |-> "none", columns |-> {}, rows |-> <<>>],
     [kind |-> "unreadable", columns |-> {}, rows |-> <<>>]}
    \cup [kind : {"table"}, columns : {AllTaskColumns}, rows : Tables(MaxVMs)]
    \cup [kind : {"table"}, columns : {{"id", "cpu_capacity"}, {"id", "cpu_count"}},
          rows : Tables(1)]

UsageChoices == {0, 10, 100, 150}          \* percent
DurationChoices == {-10, 0, 1, 10, 240}    \* tenths of an hour

\* the argument pairs explored: one argument varies while the other is 10
ConfigChoices == {c \in UsageChoices \X DurationChoices : c[1] = 10 \/ c[2] = 10}

GeneratorProgs == {"fragment_validator", "fragment_abstraction"}

\* ------------------------------------------------- generate_synthetic_vms
\* random.randint(2, 16) for VM i under outcome pattern k
RandInt(k, i) == RandLo + ((k * i) % (RandHi - RandLo + 1))

\* generate_synthetic_vms that numbers the VMs from 1
generate_synthetic_vms_OneBased(num_vms, k) ==
    [j \in 1..num_vms |->
        LET i == j
            cpu_count == RandInt(k, i)
        IN  [id |-> StrId(VmPrefix \o IntToStr(SyntheticIdBase + i)),
             cpu_count |-> cpu_count,
             cpu_capacity |-> cpu_count * 1000,
             nan |-> {}]]

generate_synthetic_vms(num_vms, k) ==
    [j \in 1..num_vms |->
        LET i == j - 1
            cpu_count == RandInt(k, i)
        IN  [id |-> StrId(VmPrefix \o IntToStr(SyntheticIdBase + i)),
             cpu_count |-> cpu_count,
             cpu_capacity |-> cpu_count * 1000,
             nan |-> {}]]

\* ------------------------------------------------- create_fragment_file
TotalDurationMs(tenths) == tenths * MsPerTenthHour

FragmentsPerVm(tenths) == FloorDiv(TotalDurationMs(tenths), fragment_duration_ms)

DividesEvenly(tenths) ==
    FragmentsPerVm(tenths) * fragment_duration_ms = TotalDurationMs(tenths)

\* lines 25-40: slice count, and the warning of fragment_validator
ComputeFragmentsPerVm ==
    /\ prog \in GeneratorProgs
    /\ pc = "start"
    /\ fragments_per_vm' = FragmentsPerVm(duration_tenths)
    /\ warned' = (prog = "fragment_validator" /\ ~DividesEvenly(duration_tenths))
    /\ pc' = "load"
    /\ UNCHANGED <<prog, outcome, task_file, usage_percentage, duration_tenths, task_df, synthetic, vm_idx, all_fragments, output_file, validation_results, all_pass>>
    /\ UNCHANGED <<excelVars, dcVars, p2cVars, csvVars>>

MissingColumns(p, tf) == RequiredColumns(p) \ tf.columns

\* UseTaskFile without the required-column check
UseTaskFile_NoColumnCheck(p, tf) == tf.kind = "table"

UseTaskFile(p, tf) == tf.kind = "table" /\ MissingColumns(p, tf) = {}

\* lines 42-58: read the task file or fall back to synthetic VMs
LoadTaskFile ==
    /\ prog \in GeneratorProgs
    /\ pc = "load"
    /\ IF UseTaskFile(prog, task_file)
       THEN /\ task_df' = task_file.rows
            /\ synthetic' = FALSE
       ELSE /\ \E k \in 0..(MaxPattern - 1) :
                  task_df' = generate_synthetic_vms(NumSyntheticVMs, k)
            /\ synthetic' = TRUE
    /\ pc' = "generate"
    /\ UNCHANGED <<prog, outcome, task_file, usage_percentage, duration_tenths, fragments_per_vm, warned, vm_idx, all_fragments, output_file, validation_results, all_pass>>
    /\ UNCHANGED <<excelVars, dcVars, p2cVars, csvVars>>

\* VmFragments that derives the usage from the CPU count, the way
\* generate_synthetic_vms derives the capacity
VmFragments_FromCpuCount(p, vm, usage, n) ==
    [i \in 1..n |->
        [id |-> PyStr(vm.id),
         duration |-> fragment_duration_ms,
         cpu_count |-> IF p = "fragment_validator" THEN vm.cpu_count ELSE CpuCountText,
         cpu_usage |-> vm.cpu_count * 1000 * usage,
         nulls |-> IF "cpu_capacity" \in vm.nan THEN {"cpu_usage"} ELSE {}]]

\* the fragments of one VM: range(int(fragments_per_vm)) copies
VmFragments(p, vm, usage, n) ==
    [i \in 1..n |->
        [id |-> PyStr(vm.id),
         duration |-> fragment_duration_ms,
         cpu_count |-> IF p = "fragment_validator" THEN vm.cpu_count ELSE CpuCountText,
         cpu_usage |-> vm.cpu_capacity * usage,
         nulls |-> IF "cpu_capacity" \in vm.nan THEN {"cpu_usage"} ELSE {}]]

\* int(vm['cpu_count']) raises ValueError on NaN (fragment_validator only)
ConversionRaises(p, vm) == p = "fragment_validator" /\ "cpu_count" \in vm.nan

\* one iteration of "for _, vm in task_df.iterrows()"
GenerateFragments ==
    /\ prog \in GeneratorProgs
    /\ pc = "generate"
    /\ vm_idx < Len(task_df)
    /\ IF ConversionRaises(prog, task_df[vm_idx + 1])
       THEN /\ outcome' = "raised"
            /\ pc' = "done"
            /\ UNCHANGED <<vm_idx, all_fragments>>
       ELSE /\ vm_idx' = vm_idx + 1
            /\ all_fragments' = all_fragments \o
                  VmFragments(prog, task_df[vm_idx + 1], usage_percentage, fragments_per_vm)
            /\ UNCHANGED <<pc, outcome>>
    /\ UNCHANGED <<prog, task_file, usage_percentage, duration_tenths, fragments_per_vm, warned, task_df, synthetic, output_file, validation_results, all_pass>>
    /\ UNCHANGED <<excelVars, dcVars, p2cVars, csvVars>>

\* FragmentSchema with cpu_count left at pandas' default integer width
FragmentSchema_Int64Count(p) ==
    <<<<"id", "string">>, <<"duration", "int64">>,
      <<"cpu_count", IF p = "fragment_abstraction" THEN "string" ELSE "int64">>,
      <<"cpu_usage", "float64">>>>

\* the schema handed to pa.Table.from_pandas: <<name, type>> per field, all
\* declared non-nullable
FragmentSchema(p) ==
    <<<<"id", "string">>, <<"duration", "int64">>,
      <<"cpu_count", IF p = "fragment_abstraction" THEN "string" ELSE "int32">>,
      <<"cpu_usage", "float64">>>>

\* FrameRaises that lets a NaN through, as a nullable schema would
FrameRaises_EmptyOnly(frags) == frags = <<>>

\* pd.DataFrame([]) has no columns: fragment_df['cpu_count'] (fragment_validator,
\* fragment_file_maker) and pa.Table.from_pandas with the schema
\* (fragment_abstraction) raise KeyError; from_pandas raises ValueError when
\* a column of a non-nullable field holds a NaN
FrameRaises(frags) ==
    \/ frags = <<>>
    \/ \E i \in DOMAIN frags : frags[i].nulls # {}

\* the loop is over: build the frame and the arrow table, write the parquet
WriteTable ==
    /\ prog \in GeneratorProgs
    /\ pc = "generate"
    /\ vm_idx = Len(task_df)
    /\ IF FrameRaises(all_fragments)
       THEN /\ outcome' = "raised"
            /\ pc' = "done"
            /\ UNCHANGED output_file
       ELSE /\ output_file' = [exists |-> TRUE, rows |-> all_fragments,
                                 schema |-> FragmentSchema(prog)]
            /\ IF prog = "fragment_validator"
               THEN pc' = "validate" /\ UNCHANGED outcome
               ELSE pc' = "done" /\ outcome' = "returned"
    /\ UNCHANGED <<prog, task_file, usage_percentage, duration_tenths, fragments_per_vm, warned, task_df, synthetic, vm_idx, all_fragments, validation_results, all_pass>>
    /\ UNCHANGED <<excelVars, dcVars, p2cVars, csvVars>>

\* fragment_df.groupby('id'): the group keys in ascending order
GroupKeys(frags) == SortStrings({f.id : f \in Range(frags)})

GroupOf(frags, key) == SelectSeq(frags, LAMBDA f : f.id = key)

\* task_df[task_df['id'] == vm_id]
MatchingVms(table, vm_id) == SelectSeq(table, LAMBDA r : EqStr(r.id, vm_id))

\* abs(expected - mean(usages)) < 0.001 MHz, usages in hundredths of a MHz:
\* |expected - sum/n| < 1/10  <=>  10 * |n * expected - sum| < n
CpuUsageMatch(expected, usages) ==
    LET n == Len(usages)
        d == n * expected - SeqSum(usages)
    IN  10 * (IF d < 0 THEN -d ELSE d) < n

ValidationEntry(vm_id, vm_fragments, vm_data, n, usage) ==
    LET expected_duration_ms == fragment_duration_ms * n
        expected_cpu_usage == vm_data.cpu_capacity * usage
        actual_fragments == Len(vm_fragments)
        durations == [i \in DOMAIN vm_fragments |-> vm_fragments[i].duration]
        usages == [i \in DOMAIN vm_fragments |-> vm_fragments[i].cpu_usage]
    IN  [vm_id |-> vm_id,
         expected_fragments |-> n,
         actual_fragments |-> actual_fragments,
         fragments_match |-> (n = actual_fragments),
         duration_match |-> (expected_duration_ms = SeqSum(durations)),
         expected_cpu_usage |-> expected_cpu_usage,
         cpu_usage_match |-> CpuUsageMatch(expected_cpu_usage, usages)]

\* one iteration of "for vm_id, vm_fragments in vm_groups" (lines 103-129)
ValidateVm ==
    /\ prog = "fragment_validator"
    /\ pc = "validate"
    /\ Len(validation_results) < Len(GroupKeys(all_fragments))
    /\ LET vm_id == GroupKeys(all_fragments)[Len(validation_results) + 1]
           found == MatchingVms(task_df, vm_id)
       IN  IF found = <<>>
           THEN \* .iloc[0] on an empty selection: IndexError
                /\ outcome' = "raised"
                /\ pc' = "done"
                /\ UNCHANGED validation_results
           ELSE /\ validation_results' = Append(validation_results,
                      ValidationEntry(vm_id, GroupOf(all_fragments, vm_id), found[1],
                                      fragments_per_vm, usage_percentage))
                /\ UNCHANGED <<pc, outcome>>
    /\ UNCHANGED <<prog, task_file, usage_percentage, duration_tenths, fragments_per_vm, warned, task_df, synthetic, vm_idx, all_fragments, output_file, all_pass>>
    /\ UNCHANGED <<excelVars, dcVars, p2cVars, csvVars>>

\* AllPass that looks at the cpu usage column only
AllPass_UsageOnly(results) ==
    \A i \in DOMAIN results : results[i].cpu_usage_match

\* lines 135-139: the three column-wise .all()
AllPass(results) ==
    /\ \A i \in DOMAIN results : results[i].fragments_match
    /\ \A i \in DOMAIN results : results[i].duration_match
    /\ \A i \in DOMAIN results : results[i].cpu_usage_match

\* lines 131-158: summary and return
Summarize ==
    /\ prog = "fragment_validator"
    /\ pc = "validate"
    /\ Len(validation_results) = Len(GroupKeys(all_fragments))
    /\ all_pass' = IF AllPass(validation_results) THEN "PASS" ELSE "FAIL"
    /\ outcome' = "returned"
    /\ pc' = "done"
    /\ UNCHANGED <<prog, task_file, usage_percentage, duration_tenths, fragments_per_vm, warned, task_df, synthetic, vm_idx, all_fragments, output_file, validation_results>>
    /\ UNCHANGED <<excelVars, dcVars, p2cVars, csvVars>>

\* ------------------------------- fragment_file_maker.create_fragment_file
ExcelRequiredColumns ==
    {"CPUs VM is using", "CPU Utilization(MHz)", "Total CPU Capacity (MHz)"}

DurationSet == {300000, 600000, 900000}

\* a spreadsheet cell: a number, or something pd.to_numeric coerces to NaN
Num(v) == [ok |-> TRUE, v |-> v]
BadCell == [ok |-> FALSE, v |-> 0]

\* pd.to_numeric(..., errors='coerce').fillna(default)
Coerce(cell, default) == IF cell.ok THEN cell.v ELSE default

\* cpus: 'CPUs VM is using', util: 'CPU Utilization(MHz)',
\* capacity: 'Total CPU Capacity (MHz)'
ExcelRowChoices ==
    [cpus : {Num(4), BadCell}, util : {Num(250), BadCell}, capacity : {Num(200), Num(1000)}]

Sheets(n) == UNION {[1..k -> ExcelRowChoices] : k \in 0..n}

ExcelFileChoices ==
    {[kind |-> "unreadable", columns |-> {}, rows |-> <<>>]}
    \cup [kind : {"table"}, columns : {ExcelRequiredColumns}, rows : Sheets(MaxRows)]
    \cup [kind : {"table"},
          columns : {ExcelRequiredColumns \ {c} : c \in ExcelRequiredColumns},
          rows : Sheets(1)]

\* lines 23-46: read the sheet and check the required columns
ReadExcel ==
    /\ prog = "fragment_file_maker"
    /\ pc = "start"
    /\ IF excel_file.kind # "table" \/ ExcelRequiredColumns \ excel_file.columns # {}
       THEN pc' = "done" /\ outcome' = "none"
       ELSE pc' = "fragments" /\ UNCHANGED outcome
    /\ UNCHANGED <<prog, vm_idx, all_fragments, output_file, genVars, excelVars, dcVars, p2cVars, csvVars>>

\* the fragment of the row at 0-based position i, with drawn duration d;
\* the id is str(df.index + 1) (lines 33, 52)
ExcelFragment_ZeroBased(i, row, d) ==
    [id |-> IntToStr(i),
     duration |-> d,
     cpu_count |-> Coerce(row.cpus, 1),
     cpu_usage |-> Coerce(row.util, 0),
     nulls |-> {}]

ExcelFragment(i, row, d) ==
    [id |-> IntToStr(i + 1),
     duration |-> d,
     cpu_count |-> Coerce(row.cpus, 1),
     cpu_usage |-> Coerce(row.util, 0),
     nulls |-> {}]

\* one iteration of "for i in range(len(vms_data))" (lines 75-81)
MakeFragment ==
    /\ prog = "fragment_file_maker"
    /\ pc = "fragments"
    /\ vm_idx < Len(excel_file.rows)
    /\ \E d \in DurationSet :
          all_fragments' = Append(all_fragments,
              ExcelFragment(vm_idx, excel_file.rows[vm_idx + 1], d))
    /\ vm_idx' = vm_idx + 1
    /\ UNCHANGED <<prog, pc, outcome, output_file, genVars, excelVars, dcVars, p2cVars, csvVars>>

\* lines 83-113: frame, schema, write; any exception returns None
WriteFragments ==
    /\ prog = "fragment_file_maker"
    /\ pc = "fragments"
    /\ vm_idx = Len(excel_file.rows)
    /\ IF FrameRaises(all_fragments)
       THEN outcome' = "none" /\ UNCHANGED output_file
       ELSE /\ outcome' = "returned"
            /\ output_file' = [exists |-> TRUE, rows |-> all_fragments,
                                 schema |-> FragmentSchema(prog)]
    /\ pc' = "done"
    /\ UNCHANGED <<prog, vm_idx, all_fragments, genVars, excelVars, dcVars, p2cVars, csvVars>>

\* ------------------------------ task_file_maker.convert_csv_to_parquet
FallbackEncodings == <<"latin1", "ISO-8859-1", "cp1252", "utf-8-sig">>

NoEncoding == ""

\* "RUTH", "ruth", "NYC"
RUTH == <<82, 85, 84, 72>>
DcChoices == {RUTH, <<114, 117, 116, 104>>, <<78, 89, 67>>}

UpperChar(c) == IF c >= 97 /\ c <= 122 THEN c - 32 ELSE c
Upper(str) == [i \in DOMAIN str |-> UpperChar(str[i])]

CsvRequiredColumns == {"CPU", "Mem (MB)"}
AllCsvColumns == {"vCenter DC", "CPU", "Mem (MB)"}

CsvRowChoices == [dc : DcChoices, cpu : {Num(8), BadCell}, mem : {Num(2048)}]

CsvTables(n) == UNION {[1..k -> CsvRowChoices] : k \in 0..n}

\* a file of 11 rows whose RUTH rows are rows 2, 9, 10 and 11
LongCsv ==
    [i \in 1..11 |-> [dc |-> IF i \in {2, 9, 10, 11} THEN RUTH ELSE <<78, 89, 67>>,
                      cpu |-> Num(8), mem |-> Num(2048)]]

\* chardet: the module can be imported; detected: its answer (NoEncoding for None);
\* readable: the encodings pd.read_csv succeeds with
CsvFileChoices ==
    [exists : {TRUE}, chardet : BOOLEAN, detected : {NoEncoding, "utf-8"},
     readable : {{}, {"utf-8"}, {"utf-8-sig"}, {"latin1", "ISO-8859-1", "cp1252"}},
     columns : {AllCsvColumns}, rows : CsvTables(MaxRows)]
    \cup [exists : {TRUE}, chardet : {FALSE}, detected : {NoEncoding},
          readable : {{"latin1", "ISO-8859-1", "cp1252"}},
          columns : {AllCsvColumns \ {c} : c \in AllCsvColumns}, rows : CsvTables(1)]
    \cup [exists : {FALSE}, chardet : BOOLEAN, detected : {NoEncoding},
          readable : {{}}, columns : {{}}, rows : {<<>>}]
    \cup [exists : {TRUE}, chardet : {FALSE}, detected : {NoEncoding},
          readable : {{"latin1", "ISO-8859-1", "cp1252"}},
          columns : {AllCsvColumns}, rows : {LongCsv}]

SubsetChoices == {0, 25, 50, 75, 100, 150}      \* percent

\* detect_encoding whose answer is never used
detect_encoding_Ignored(f) == NoEncoding

\* lines 9-21 and 26-35
detect_encoding(f) == IF f.chardet THEN f.detected ELSE NoEncoding

DetectEncoding ==
    /\ prog = "task_file_maker"
    /\ pc = "start"
    /\ IF csv_file.chardet /\ ~csv_file.exists
       THEN \* open() raises FileNotFoundError, which detect_encoding does not catch
            /\ outcome' = "raised"
            /\ pc' = "done"
            /\ UNCHANGED encodings_to_try
       ELSE /\ encodings_to_try' =
                  (IF detect_encoding(csv_file) # NoEncoding
                   THEN <<detect_encoding(csv_file)>> ELSE <<>>) \o FallbackEncodings
            /\ pc' = "read"
            /\ UNCHANGED outcome
    /\ UNCHANGED <<prog, vm_idx, all_fragments, output_file, genVars, excelVars, dcVars, p2cVars,
                   csv_file, subset_fraction, tried, df>>

ReadSucceeds(f, enc) == f.exists /\ enc \in f.readable

\* one iteration of "for enc in encodings_to_try" (lines 38-49)
TryEncoding ==
    /\ prog = "task_file_maker"
    /\ pc = "read"
    /\ Len(tried) < Len(encodings_to_try)
    /\ LET enc == encodings_to_try[Len(tried) + 1]
       IN  /\ tried' = Append(tried, enc)
           /\ IF ReadSucceeds(csv_file, enc)
              THEN /\ df' = [columns |-> csv_file.columns, rows |-> csv_file.rows]
                   /\ pc' = "convert"
                   /\ UNCHANGED outcome
              ELSE IF Len(tried) + 1 = Len(encodings_to_try)
              THEN \* the for-else: ValueError
                   /\ outcome' = "raised"
                   /\ pc' = "done"
                   /\ UNCHANGED df
              ELSE UNCHANGED <<df, pc, outcome>>
    /\ UNCHANGED <<prog, vm_idx, all_fragments, output_file, genVars, excelVars, dcVars, p2cVars,
                   csv_file, subset_fraction, encodings_to_try>>

\* WithOriginalRow that numbers the rows from 0, as df.index does
WithOriginalRow_ZeroBased(rows) ==
    [i \in DOMAIN rows |-> [original_row |-> i - 1, dc |-> rows[i].dc,
                            cpu |-> rows[i].cpu, mem |-> rows[i].mem]]

\* df['original_row'] = df.index + 1, then the RUTH filter (lines 55, 64)
WithOriginalRow(rows) ==
    [i \in DOMAIN rows |-> [original_row |-> i, dc |-> rows[i].dc,
                            cpu |-> rows[i].cpu, mem |-> rows[i].mem]]

RuthVms(rows) == SelectSeq(WithOriginalRow(rows), LAMBDA r : Upper(r.dc) = RUTH)

\* SubsetSize without the minimum of one row
SubsetSize_NoMinimum(n, pct) == (n * pct) \div 100

\* max(1, int(n * subset_fraction)), subset_fraction in percent
SubsetSize(n, pct) ==
    LET k == (n * pct) \div 100 IN IF k > 1 THEN k ELSE 1

\* the outcomes of random.sample(range(n), k): k distinct positions, in any order
Samples(n, k) == {q \in [1..k -> 1..n] : \A a, b \in 1..k : a # b => q[a] # q[b]}

\* both in seconds: the millisecond values 1376314546000 (the timestamp of
\* "2013-08-12 13:35:46" read as UTC) and 2592252000 exceed TLC's integers
SubmissionTimeSec == 1376314546
TaskDurationSec == 2592252
TaskCpuCapacity == 2500

\* lines 125-132
TaskSchema ==
    <<<<"id", "string">>, <<"submission_time", "int64">>, <<"duration", "int64">>,
      <<"cpu_count", "int32">>, <<"cpu_capacity", "float64">>,
      <<"mem_capacity", "int64">>>>

TaskRow(r) ==
    [id |-> IntToStr(r.original_row),
     submission_time |-> SubmissionTimeSec,
     duration |-> TaskDurationSec,
     cpu_count |-> Coerce(r.cpu, 2),
     cpu_capacity |-> TaskCpuCapacity,
     mem_capacity |-> Coerce(r.mem, 4096)]

\* task_df.sort_values('id'): ascending by the id string
RECURSIVE SortById(_)
SortById(rows) ==
    IF rows = <<>> THEN <<>>
    ELSE LET m == CHOOSE i \in DOMAIN rows :
                     \A j \in DOMAIN rows : ~StrLess(rows[j].id, rows[i].id)
         IN  <<rows[m]>> \o
             SortById([k \in 1..(Len(rows) - 1) |-> IF k < m THEN rows[k] ELSE rows[k + 1]])

\* lines 51-149: filter, subset, convert, sort and write
ConvertTasks ==
    /\ prog = "task_file_maker"
    /\ pc = "convert"
    /\ LET ruth_vms == RuthVms(df.rows)
           n == Len(ruth_vms)
       IN  IF \/ "vCenter DC" \notin df.columns
              \/ n = 0
              \/ CsvRequiredColumns \ df.columns # {}
           THEN /\ outcome' = "none"
                /\ UNCHANGED output_file
           ELSE /\ outcome' = "returned"
                /\ \E q \in (IF subset_fraction < 100
                             THEN Samples(n, SubsetSize(n, subset_fraction))
                             ELSE {[i \in 1..n |-> i]}) :
                      output_file' = [exists |-> TRUE,
                          rows |-> SortById([i \in DOMAIN q |-> TaskRow(ruth_vms[q[i]])]),
                          schema |-> TaskSchema]
    /\ pc' = "done"
    /\ UNCHANGED <<prog, vm_idx, all_fragments, genVars, excelVars, dcVars, p2cVars, csvVars>>

\* ------------------------------------------------------------ the runs
NoFile == [exists |-> FALSE, rows |-> <<>>, schema |-> <<>>]

NoTaskFile == [kind |-> "none", columns |-> {}, rows |-> <<>>]
NoExcelFile == [kind |-> "unreadable", columns |-> {}, rows |-> <<>>]
NoCsvFile == [exists |-> FALSE, chardet |-> FALSE, detected |-> NoEncoding,
              readable |-> {}, columns |-> {}, rows |-> <<>>]

\* ------------------------------ parquet_to_csv.parquet_to_csv_chunked
PqValues == {5, 6}

\* kind "missing": no file at input_path; "corrupt": pq.ParquetFile raises.
\* A table of zero rows has no row group.
ParquetChoices ==
    {[kind |-> "missing", rows |-> <<>>], [kind |-> "corrupt", rows |-> <<>>]}
    \cup [kind : {"table"}, rows : UNION {[1..k -> PqValues] : k \in 0..(MaxRows + 1)}]

NoCsvOutput == [exists |-> FALSE, headers |-> 0, rows |-> <<>>]

\* the output directory may be missing, and a CSV of an earlier run may be
\* in the way
OutputPathChoices ==
    {[dir_exists |-> FALSE, csv |-> NoCsvOutput],
     [dir_exists |-> TRUE, csv |-> NoCsvOutput],
     [dir_exists |-> TRUE, csv |-> [exists |-> TRUE, headers |-> 1, rows |-> <<9>>]]}

ChunkChoices == 1..MaxRows

WriteErrorChoices == 0..2

NoParquet == [kind |-> "missing", rows |-> <<>>]

NoConversion ==
    /\ input_path = NoParquet
    /\ output_path = [dir_exists |-> TRUE, csv |-> NoCsvOutput]
    /\ chunksize = 1
    /\ write_error_at = 0

\* parquet_file.metadata.num_rows, None when the file cannot be opened
get_parquet_row_count(file) == IF file.kind = "table" THEN Len(file.rows) ELSE -1

\* the number of batches iter_batches(batch_size = c) yields for n rows
NumBatches(n, c) == (n + c - 1) \div c

\* batch i (0-based) of the file
Batch(rows, c, i) ==
    SubSeq(rows, i * c + 1, IF (i + 1) * c < Len(rows) THEN (i + 1) * c ELSE Len(rows))

\* lines 57-70: the input must exist; count its rows
ValidateInput ==
    /\ prog = "parquet_to_csv"
    /\ pc = "start"
    /\ IF input_path.kind = "missing"
       THEN /\ success' = "False"
            /\ outcome' = "returned"
            /\ pc' = "done"
            /\ UNCHANGED total_rows
       ELSE /\ total_rows' = get_parquet_row_count(input_path)
            /\ pc' = "makedirs"
            /\ UNCHANGED <<success, outcome>>
    /\ UNCHANGED <<input_path, output_path, output_before, chunksize, write_error_at, batch_no, total_processed>>
    /\ UNCHANGED <<prog, vm_idx, all_fragments, output_file, genVars, excelVars, dcVars, csvVars>>

\* lines 72-75: os.makedirs when the output directory is missing
MakeOutputDir ==
    /\ prog = "parquet_to_csv"
    /\ pc = "makedirs"
    /\ output_path' = [output_path EXCEPT !.dir_exists = TRUE]
    /\ pc' = "open"
    /\ UNCHANGED <<input_path, output_before, chunksize, write_error_at, total_rows, batch_no, total_processed, success>>
    /\ UNCHANGED <<prog, outcome, vm_idx, all_fragments, output_file, genVars, excelVars, dcVars, csvVars>>

\* line 78: pq.ParquetFile(input_path); an exception ends in the handler of
\* lines 118-122
OpenParquet ==
    /\ prog = "parquet_to_csv"
    /\ pc = "open"
    /\ IF input_path.kind = "corrupt"
       THEN /\ success' = "False"
            /\ outcome' = "returned"
            /\ pc' = "done"
       ELSE /\ pc' = "batches"
            /\ UNCHANGED <<success, outcome>>
    /\ UNCHANGED <<input_path, output_path, output_before, chunksize, write_error_at, total_rows, batch_no, total_processed>>
    /\ UNCHANGED <<prog, vm_idx, all_fragments, output_file, genVars, excelVars, dcVars, csvVars>>

\* chunk.to_csv(output_path, mode, header): 'w' with the header line for the
\* first batch, 'a' without it for the others
ToCsv(csv, chunk, i) ==
    IF i = 0
    THEN [exists |-> TRUE, headers |-> 1, rows |-> chunk]
    ELSE [exists |-> TRUE, headers |-> csv.headers, rows |-> csv.rows \o chunk]

\* one iteration of the loop of lines 82-110
WriteChunk ==
    /\ prog = "parquet_to_csv"
    /\ pc = "batches"
    /\ batch_no < NumBatches(Len(input_path.rows), chunksize)
    /\ LET chunk == Batch(input_path.rows, chunksize, batch_no)
       IN  IF write_error_at = batch_no + 1
           THEN /\ success' = "False"
                /\ outcome' = "returned"
                /\ pc' = "done"
                /\ UNCHANGED <<output_path, batch_no, total_processed>>
           ELSE /\ output_path' = [output_path EXCEPT !.csv = ToCsv(@, chunk, batch_no)]
                /\ total_processed' = total_processed + Len(chunk)
                /\ batch_no' = batch_no + 1
                /\ UNCHANGED <<success, outcome, pc>>
    /\ UNCHANGED <<input_path, output_before, chunksize, write_error_at, total_rows>>
    /\ UNCHANGED <<prog, vm_idx, all_fragments, output_file, genVars, excelVars, dcVars, csvVars>>

\* lines 112-116: the loop is over
FinishConversion ==
    /\ prog = "parquet_to_csv"
    /\ pc = "batches"
    /\ batch_no = NumBatches(Len(input_path.rows), chunksize)
    /\ success' = "True"
    /\ outcome' = "returned"
    /\ pc' = "done"
    /\ UNCHANGED <<input_path, output_path, output_before, chunksize, write_error_at, total_rows, batch_no, total_processed>>
    /\ UNCHANGED <<prog, vm_idx, all_fragments, output_file, genVars, excelVars, dcVars, csvVars>>

\* ------------------------- input_citi_data_for_specific_dc.csv_to_json
\* a row of the sheet: cpu_name is FALSE when the 'CPU name' cell is empty;
\* storage is TRUE when the 'storage_server' cell is 1; freq is the
\* 'CPU Base Frequency (in GHz)' cell: a number of GHz, an empty cell, or
\* text that float() rejects
FreqChoices == {"2", "nan", "text"}

HardwareRowChoices ==
    {[cpu_name |-> FALSE, storage |-> FALSE, freq |-> "2"]}
    \cup [cpu_name : {TRUE}, storage : BOOLEAN, freq : FreqChoices]

HardwareSheets(n) == UNION {[1..k -> HardwareRowChoices] : k \in 0..n}

\* a sheet of 12 rows: eleven hosts, and an empty 'CPU name' cell in row 3
LongSheet ==
    [i \in 1..12 |-> [cpu_name |-> (i # 3), storage |-> FALSE, freq |-> "2"]]

\* kind "unreadable": pd.read_excel raises; columns: whether the sheet has
\* the 'CPU name' and the 'storage_server' column
HardwareChoices ==
    {[kind |-> "unreadable", cpu_name_col |-> TRUE, storage_col |-> TRUE, rows |-> <<>>]}
    \cup [kind : {"table"}, cpu_name_col : {TRUE}, storage_col : BOOLEAN,
          rows : HardwareSheets(MaxRows + 1)]
    \cup [kind : {"table"}, cpu_name_col : {FALSE}, storage_col : {TRUE},
          rows : HardwareSheets(1)]
    \cup [kind : {"table"}, cpu_name_col : {TRUE}, storage_col : {TRUE}, rows : {LongSheet}]

NoHardware == [kind |-> "unreadable", cpu_name_col |-> TRUE, storage_col |-> TRUE, rows |-> <<>>]

NoTopology == hardware_sheet = NoHardware

\* str.zfill(width)
ZFill(str, width) ==
    IF Len(str) >= width THEN str
    ELSE [i \in 1..(width - Len(str)) |-> ChZero] \o str

\* HostName without the zero padding
HostName_NoPad(is_storage, counter) ==
    <<IF is_storage THEN 83 ELSE 72>> \o IntToStr(counter)

\* f"{name_prefix}{str(counter).zfill(2)}" with the prefix 'S' or 'H'
HostName(is_storage, counter) ==
    <<IF is_storage THEN 83 ELSE 72>> \o ZFill(IntToStr(counter), 2)

\* int(float(GHz) * 1000), 0 for an empty cell
CoreSpeed(freq) == IF freq = "2" THEN 2000 ELSE 0

\* the row raises inside the try: row['CPU name'] on a sheet without that
\* column (KeyError), float() of text (ValueError)
RowRaises(sheet, row) == ~sheet.cpu_name_col \/ (row.cpu_name /\ row.freq = "text")

\* lines 35-52: read the sheet, start the cluster and the counters
ReadHardware ==
    /\ prog = "csv_to_json"
    /\ pc = "start"
    /\ IF hardware_sheet.kind # "table"
       THEN /\ outcome' = "none"
            /\ pc' = "done"
            /\ UNCHANGED <<host_counter, storage_counter>>
       ELSE /\ host_counter' = 1
            /\ storage_counter' = 1
            /\ pc' = "rows"
            /\ UNCHANGED outcome
    /\ UNCHANGED <<hardware_sheet, cluster>>
    /\ UNCHANGED <<prog, vm_idx, all_fragments, output_file, genVars, excelVars, csvVars, p2cVars, convVars>>

\* one iteration of "for index, row in df.iterrows()" (lines 57-108)
ProcessRow ==
    /\ prog = "csv_to_json"
    /\ pc = "rows"
    /\ vm_idx < Len(hardware_sheet.rows)
    /\ LET row == hardware_sheet.rows[vm_idx + 1]
           is_storage == hardware_sheet.storage_col /\ row.storage
           counter == IF is_storage THEN storage_counter ELSE host_counter
       IN  IF RowRaises(hardware_sheet, row) \/ ~row.cpu_name
           THEN UNCHANGED <<cluster, host_counter, storage_counter>>
           ELSE /\ cluster' = Append(cluster,
                      [name |-> HostName(is_storage, counter),
                       coreSpeed |-> CoreSpeed(row.freq)])
                /\ IF is_storage
                   THEN storage_counter' = storage_counter + 1 /\ UNCHANGED host_counter
                   ELSE host_counter' = host_counter + 1 /\ UNCHANGED storage_counter
    /\ vm_idx' = vm_idx + 1
    /\ UNCHANGED hardware_sheet
    /\ UNCHANGED <<prog, pc, outcome, all_fragments, output_file, genVars, excelVars, csvVars, p2cVars, convVars>>

\* line 110
ReturnCluster ==
    /\ prog = "csv_to_json"
    /\ pc = "rows"
    /\ vm_idx = Len(hardware_sheet.rows)
    /\ outcome' = "returned"
    /\ pc' = "done"
    /\ UNCHANGED topoVars
    /\ UNCHANGED <<prog, vm_idx, all_fragments, output_file, genVars, excelVars, csvVars, p2cVars, convVars>>

\* ------------------------------------------ input_citi_data_for_all_DC
\* "ZANTAZ", " zantaz", "HP", "ZANTAZ-Z2"
ZANTAZ == <<90, 65, 78, 84, 65, 90>>
ZantazLower == <<32, 122, 97, 110, 116, 97, 122>>
HP == <<72, 80>>
ZantazZ2 == ZANTAZ \o <<45, 90, 50>>

\* "059", "Z2-059"
Model059 == <<48, 53, 57>>
ModelZ2059 == <<90, 50, 45>> \o Model059

\* a PowerSpec as the dataclass builds it (lines 32-41): an attribute is a
\* field of the record; "None" stands for an attribute left at None
PowerSpec(idle_power, max_power) ==
    [vendor |-> "None", modelName |-> "None", arch |-> "None",
     idle_power |-> idle_power, max_power |-> max_power, carbonTracePath |-> "None"]

\* an object that is not a PowerSpec but has a power attribute; ServerSpec
\* does not check the type of its fields
PowerObject(power) == [power |-> power]

\* getattr succeeds
HasAttr(obj, attr) == attr \in DOMAIN obj

\* a ServerSpec; memory_size in GiB
ServerSpec(manufacturer, model, core_count, power) ==
    [manufacturer |-> manufacturer, model |-> model,
     cpu |-> [core_count |-> core_count, core_speed |-> 2400],
     memory |-> [memory_size |-> 128],
     power |-> power]

\* Python's None, as get_spec returns it
None == [none |-> TRUE]

\* the add_spec calls explored: <<manufacturer, model, spec>>
AddChoices ==
    {<<ZANTAZ, ModelZ2059, ServerSpec(ZANTAZ, ModelZ2059, 16, PowerSpec(200, 400))>>,
     <<ZantazZ2, Model059, ServerSpec(ZantazZ2, Model059, 8, PowerSpec(200, 400))>>,
     <<ZANTAZ, Model059, ServerSpec(ZANTAZ, Model059, 4, PowerObject(400))>>,
     <<ZANTAZ, Model059, ServerSpec(ZANTAZ, Model059, 32, PowerSpec(100, 300))>>,
     <<ZantazLower, Model059, ServerSpec(ZantazLower, Model059, 2, PowerObject(300))>>}

\* the rows of the frame: their MANUFACTURER and MODEL cells
ServerRowChoices ==
    {[MANUFACTURER |-> ZANTAZ, MODEL |-> ModelZ2059],
     [MANUFACTURER |-> ZANTAZ, MODEL |-> Model059],
     [MANUFACTURER |-> ZantazLower, MODEL |-> Model059],
     [MANUFACTURER |-> HP, MODEL |-> Model059]}

ServerTables(n) == UNION {[1..k -> ServerRowChoices] : k \in 0..n}

NoRegistry == servers_df = <<>>

\* key = f"{manufacturer}-{model}" (lines 56, 60)
SpecKey(manufacturer, model) == manufacturer \o <<45>> \o model

\* self.specs[key] = spec
add_spec(registry, manufacturer, model, spec) ==
    LET key == SpecKey(manufacturer, model)
    IN  [k \in (DOMAIN registry) \cup {key} |-> IF k = key THEN spec ELSE registry[k]]

\* self.specs.get(key)
get_spec(registry, manufacturer, model) ==
    LET key == SpecKey(manufacturer, model)
    IN  IF key \in DOMAIN registry THEN registry[key] ELSE None

\* str.strip(): leading and trailing blanks removed
RECURSIVE Strip(_)
Strip(str) ==
    IF str = <<>> THEN str
    ELSE IF Head(str) = 32 THEN Strip(Tail(str))
    ELSE IF str[Len(str)] = 32 THEN Strip(SubSeq(str, 1, Len(str) - 1))
    ELSE str

\* the order of groupby's keys: by MANUFACTURER, then by MODEL
KeyLess(a, b) ==
    \/ StrLess(a.MANUFACTURER, b.MANUFACTURER)
    \/ a.MANUFACTURER = b.MANUFACTURER /\ StrLess(a.MODEL, b.MODEL)

RECURSIVE SortKeys(_)
SortKeys(S) ==
    IF S = {} THEN <<>>
    ELSE LET m == CHOOSE x \in S : \A y \in S \ {x} : KeyLess(x, y)
         IN  <<m>> \o SortKeys(S \ {m})

\* df.groupby(['MANUFACTURER', 'MODEL']).size().reset_index(name='count')
GroupBySize(table) ==
    LET keys == SortKeys(Range(table))
    IN  [g \in DOMAIN keys |->
            [MANUFACTURER |-> keys[g].MANUFACTURER, MODEL |-> keys[g].MODEL,
             count |-> Cardinality({i \in DOMAIN table : table[i] = keys[g]})]]

\* registry.add_spec(manufacturer, model, spec), before the converter runs
AddSpec ==
    /\ prog = "process_excel_data"
    /\ pc = "start"
    /\ Len(add_calls) < MaxAdds
    /\ \E c \in AddChoices :
          /\ specs' = add_spec(specs, c[1], c[2], c[3])
          /\ add_calls' = Append(add_calls, c)
    /\ UNCHANGED <<servers_df, grouped, clusters>>
    /\ UNCHANGED <<prog, pc, outcome, vm_idx, all_fragments, output_file, genVars, excelVars, csvVars, p2cVars, topoVars>>

\* lines 69-72
GroupRows ==
    /\ prog = "process_excel_data"
    /\ pc = "start"
    /\ grouped' = GroupBySize(servers_df)
    /\ clusters' = <<>>
    /\ pc' = "groups"
    /\ UNCHANGED <<specs, add_calls, servers_df>>
    /\ UNCHANGED <<prog, outcome, vm_idx, all_fragments, output_file, genVars, excelVars, csvVars, p2cVars, topoVars>>

\* the cluster of lines 92-114
ClusterOf(row, spec) ==
    [name |-> SpecKey(row.MANUFACTURER, row.MODEL),
     count |-> row.count,
     coreCount |-> spec.cpu.core_count,
     coreSpeed |-> spec.cpu.core_speed,
     memorySize |-> spec.memory.memory_size,
     power |-> spec.power.power]

\* one iteration of "for idx, row in grouped.iterrows()" (lines 74-116);
\* spec.power.power raises AttributeError when the object has no such
\* attribute, and nothing in process_excel_data catches it
ProcessGroup ==
    /\ prog = "process_excel_data"
    /\ pc = "groups"
    /\ vm_idx < Len(grouped)
    /\ LET row == grouped[vm_idx + 1]
           spec == get_spec(specs, row.MANUFACTURER, row.MODEL)
       IN  IF Upper(Strip(row.MANUFACTURER)) # ZANTAZ \/ spec = None
           THEN /\ vm_idx' = vm_idx + 1
                /\ UNCHANGED <<clusters, pc, outcome>>
           ELSE IF ~HasAttr(spec.power, "power")
           THEN /\ outcome' = "raised"
                /\ pc' = "done"
                /\ UNCHANGED <<clusters, vm_idx>>
           ELSE /\ clusters' = Append(clusters, ClusterOf(row, spec))
                /\ vm_idx' = vm_idx + 1
                /\ UNCHANGED <<pc, outcome>>
    /\ UNCHANGED <<specs, add_calls, servers_df, grouped>>
    /\ UNCHANGED <<prog, all_fragments, output_file, genVars, excelVars, csvVars, p2cVars, topoVars>>

\* line 118
ReturnClusters ==
    /\ prog = "process_excel_data"
    /\ pc = "groups"
    /\ vm_idx = Len(grouped)
    /\ outcome' = "returned"
    /\ pc' = "done"
    /\ UNCHANGED convVars
    /\ UNCHANGED <<prog, vm_idx, all_fragments, output_file, genVars, excelVars, csvVars, p2cVars, topoVars>>

InitGenerator ==
    /\ prog \in GeneratorProgs
    /\ task_file \in TaskFileChoices
    /\ \E c \in ConfigChoices :
          /\ usage_percentage = c[1]
          /\ duration_tenths = c[2]
    /\ excel_file = NoExcelFile
    /\ csv_file = NoCsvFile
    /\ subset_fraction = 100
    /\ NoConversion
    /\ NoTopology
    /\ NoRegistry

InitExcel ==
    /\ prog = "fragment_file_maker"
    /\ excel_file \in ExcelFileChoices
    /\ task_file = NoTaskFile
    /\ usage_percentage = 0
    /\ duration_tenths = 0
    /\ csv_file = NoCsvFile
    /\ subset_fraction = 100
    /\ NoConversion
    /\ NoTopology
    /\ NoRegistry

InitCsv ==
    /\ prog = "task_file_maker"
    /\ csv_file \in CsvFileChoices
    /\ subset_fraction \in SubsetChoices
    /\ task_file = NoTaskFile
    /\ usage_percentage = 0
    /\ duration_tenths = 0
    /\ excel_file = NoExcelFile
    /\ NoConversion
    /\ NoTopology
    /\ NoRegistry

InitParquetToCsv ==
    /\ prog = "parquet_to_csv"
    /\ input_path \in ParquetChoices
    /\ output_path \in OutputPathChoices
    /\ chunksize \in ChunkChoices
    /\ write_error_at \in WriteErrorChoices
    /\ task_file = NoTaskFile
    /\ usage_percentage = 0
    /\ duration_tenths = 0
    /\ excel_file = NoExcelFile
    /\ csv_file = NoCsvFile
    /\ subset_fraction = 100
    /\ NoTopology
    /\ NoRegistry

\* the inputs every script but the generators, the makers and the converter
\* leaves at their defaults
NoOtherInputs ==
    /\ task_file = NoTaskFile
    /\ usage_percentage = 0
    /\ duration_tenths = 0
    /\ excel_file = NoExcelFile
    /\ csv_file = NoCsvFile
    /\ subset_fraction = 100
    /\ NoConversion

InitCsvToJson ==
    /\ prog = "csv_to_json"
    /\ hardware_sheet \in HardwareChoices
    /\ NoOtherInputs
    /\ NoRegistry

InitConverter ==
    /\ prog = "process_excel_data"
    /\ servers_df \in ServerTables(MaxRows)
    /\ NoOtherInputs
    /\ NoTopology

Init ==
    /\ (InitGenerator \/ InitExcel \/ InitCsv \/ InitParquetToCsv \/ InitCsvToJson
        \/ InitConverter)
    /\ pc = "start"
    /\ outcome = "running"
    /\ fragments_per_vm = 0
    /\ warned = FALSE
    /\ task_df = <<>>
    /\ synthetic = FALSE
    /\ vm_idx = 0
    /\ all_fragments = <<>>
    /\ output_file = NoFile
    /\ validation_results = <<>>
    /\ all_pass = "unset"
    /\ encodings_to_try = <<>>
    /\ tried = <<>>
    /\ df = [columns |-> {}, rows |-> <<>>]
    /\ output_before = output_path
    /\ total_rows = 0
    /\ batch_no = 0
    /\ total_processed = 0
    /\ success = "unset"
    /\ host_counter = 0
    /\ storage_counter = 0
    /\ cluster = <<>>
    /\ specs = <<>>
    /\ add_calls = <<>>
    /\ grouped = <<>>
    /\ clusters = <<>>

Next ==
    \/ ComputeFragmentsPerVm
    \/ LoadTaskFile
    \/ GenerateFragments
    \/ WriteTable
    \/ ValidateVm
    \/ Summarize
    \/ ReadExcel
    \/ MakeFragment
    \/ WriteFragments
    \/ DetectEncoding
    \/ TryEncoding
    \/ ConvertTasks
    \/ ValidateInput
    \/ MakeOutputDir
    \/ OpenParquet
    \/ WriteChunk
    \/ FinishConversion
    \/ ReadHardware
    \/ ProcessRow
    \/ ReturnCluster
    \/ AddSpec
    \/ GroupRows
    \/ ProcessGroup
    \/ ReturnClusters

Spec == Init /\ [][Next]_vars

\* ------------------------------------------------------------ properties
HasDuplicateIds(table) ==
    \E i, j \in DOMAIN table : i # j /\ table[i].id = table[j].id

Durations(frags) == [i \in DOMAIN frags |-> frags[i].duration]

Written == output_file.exists

\* the input table of the run lacks a column the script requires
LacksRequiredColumn ==
    \/ /\ prog \in GeneratorProgs
       /\ task_file.kind = "table"
       /\ MissingColumns(prog, task_file) # {}
    \/ /\ prog = "fragment_file_maker"
       /\ excel_file.kind = "table"
       /\ ExcelRequiredColumns \ excel_file.columns # {}
    \/ /\ prog = "task_file_maker"
       /\ csv_file.exists
       /\ AllCsvColumns \ csv_file.columns # {}

\* C1: with duration_hours = 24, every id of the resource table has exactly
\* 288 fragments in the output and their durations sum to 86400000 ms,
\* whatever the table holds.
C1_Exactly288PerId ==
    (prog \in GeneratorProgs /\ duration_tenths = 240 /\ Written) =>
        \A i \in DOMAIN task_df :
            LET frs == GroupOf(output_file.rows, PyStr(task_df[i].id))
            IN  Len(frs) = 288 /\ SeqSum(Durations(frs)) = 86400000

\* C2: every written fragment lasts one slice and its cpu_usage is the
\* cpu_capacity of the record with its id times usage_percentage, so the
\* fragments of one id all carry the same usage.
C2_UsageIsCapacityTimesFraction ==
    (prog \in GeneratorProgs /\ Written) =>
        \A f \in Range(output_file.rows) :
            /\ f.duration = fragment_duration_ms
            /\ \A r \in Range(task_df) :
                  PyStr(r.id) = f.id => f.cpu_usage = r.cpu_capacity * usage_percentage

\* C3: every written fragment carries an id equal to the id of some record
\* of the resource table.
C3_FragmentIdIsRecordId ==
    (prog \in GeneratorProgs /\ Written) =>
        \A f \in Range(output_file.rows) : \E r \in Range(task_df) : EqStr(r.id, f.id)

\* C4: the validation section, run on the fragments just generated, always
\* ends with overall PASS.
C4_ValidatorPasses ==
    (prog = "fragment_validator" /\ pc = "done" /\ Written) => all_pass = "PASS"

\* C5: the overall verdict is PASS exactly when every entry of the report,
\* one per fragment id, has all three match flags set.
C5_OverallIsConjunction ==
    all_pass # "unset" =>
        /\ {validation_results[i].vm_id : i \in DOMAIN validation_results}
               = {f.id : f \in Range(all_fragments)}
        /\ (all_pass = "PASS") <=>
               \A i \in DOMAIN validation_results :
                   /\ validation_results[i].fragments_match
                   /\ validation_results[i].duration_match
                   /\ validation_results[i].cpu_usage_match

\* a finished validation that failed on an entry whose usage flag is set but
\* whose fragment count flag is not
C5_Witness ==
    /\ all_pass = "FAIL"
    /\ \E i \in DOMAIN validation_results :
          /\ validation_results[i].cpu_usage_match
          /\ ~validation_results[i].fragments_match

\* C6 as stated: whenever the input table lacks a required column, the run
\* aborts and writes no output table.
C6_MissingColumnIsFatal ==
    (pc = "done" /\ LacksRequiredColumn) => (~Written /\ outcome \in {"none", "raised"})

\* C6 amended: a missing required column makes fragment_file_maker and
\* task_file_maker return None without output; the fixed-rate generators
\* instead continue with the 10 synthetic VMs and write the fragments made
\* from them whenever the slice count is positive.
C6_MissingColumnAbortsOrFallsBack ==
    (pc = "done" /\ LacksRequiredColumn) =>
        IF prog \in GeneratorProgs
        THEN /\ synthetic
             /\ Len(task_df) = NumSyntheticVMs
             /\ fragments_per_vm > 0 =>
                   /\ Written
                   /\ outcome = "returned"
                   /\ Len(output_file.rows) = NumSyntheticVMs * fragments_per_vm
        ELSE ~Written /\ outcome = "none"

\* a generator run on a table without a required column that has written
\* the fragments of the synthetic VMs
C6_Witness ==
    /\ pc = "done"
    /\ prog = "fragment_validator"
    /\ LacksRequiredColumn
    /\ Written

\* C7: a resource table with two records of the same id makes the run fail
\* without output.
C7_DuplicateIdsRejected ==
    (prog \in GeneratorProgs /\ ~synthetic /\ pc \notin {"start", "load"}
        /\ HasDuplicateIds(task_df)) =>
            /\ ~Written
            /\ pc = "done" => outcome = "raised"

\* C8: the fragment table is written only once every record is processed,
\* and a run that ends in an exception has written no output file.
C8_NoOutputAfterException ==
    /\ (prog \in GeneratorProgs /\ Written) => vm_idx = Len(task_df)
    /\ outcome = "raised" => ~Written

\* C9: under a usage fraction outside (0,1] or a non-positive duration no
\* fragment is generated and the run ends in a fatal error.
C9_ConfigurationValidated ==
    (prog \in GeneratorProgs
        /\ (usage_percentage <= 0 \/ usage_percentage > 100 \/ duration_tenths <= 0)) =>
            /\ all_fragments = <<>>
            /\ pc = "done" => outcome = "raised"

\* C10: when the slice does not divide the coverage duration, a fixed-rate
\* generator that writes the truncated fragment table has reported the
\* truncation.
C10_TruncationSignalled ==
    (prog \in GeneratorProgs /\ ~DividesEvenly(duration_tenths) /\ Written) => warned

\* an entry of the report with a failing flag
Flagged(e) == ~(e.fragments_match /\ e.duration_match /\ e.cpu_usage_match)

ReportEntries == Range(validation_results)

\* C11: a fragment whose id is absent from the resource table yields a
\* flagged report entry; the validation neither skips it nor crashes on it.
C11_OrphanFragmentsFlagged ==
    (prog = "fragment_validator" /\ pc = "done" /\ Written) =>
        \A f \in Range(output_file.rows) :
            MatchingVms(task_df, f.id) = <<>> =>
                /\ outcome = "returned"
                /\ \E e \in ReportEntries : e.vm_id = f.id /\ Flagged(e)

\* C12: the report holds a failing entry for every id of the resource table
\* that has no fragment, so such an id never coexists with overall PASS.
C12_IdsWithoutFragmentsFlagged ==
    (prog = "fragment_validator" /\ pc = "done" /\ Written) =>
        \A r \in Range(task_df) :
            (\A f \in Range(output_file.rows) : ~EqStr(r.id, f.id)) =>
                /\ all_pass # "PASS"
                /\ \E e \in ReportEntries : PyStr(r.id) = e.vm_id /\ Flagged(e)

\* C13: the validation section always ends by returning its findings; it
\* never ends in an exception.
C13_ValidationNeverRaises ==
    (prog = "fragment_validator" /\ Written) =>
        /\ outcome # "raised"
        /\ pc = "done" => all_pass \in {"PASS", "FAIL"}

\* C14: in every fragment table written, each fragment has
\* 0 <= cpu_usage <= cpu_capacity of the record it belongs to (cpu_usage of
\* the fixed-rate generators is in hundredths of a MHz).
C14_UsageWithinCapacity ==
    /\ (prog \in GeneratorProgs /\ Written) =>
          \A f \in Range(output_file.rows) : \A r \in Range(task_df) :
              PyStr(r.id) = f.id =>
                  (0 <= f.cpu_usage /\ f.cpu_usage <= 100 * r.cpu_capacity)
    /\ (prog = "fragment_file_maker" /\ Written) =>
          \A i \in DOMAIN output_file.rows :
              /\ 0 <= output_file.rows[i].cpu_usage
              /\ output_file.rows[i].cpu_usage <= Coerce(excel_file.rows[i].capacity, 0)

FragmentProgs == GeneratorProgs \cup {"fragment_file_maker"}

FieldNames(schema) == [i \in DOMAIN schema |-> schema[i][1]]
FieldTypes(schema) == [i \in DOMAIN schema |-> schema[i][2]]

C16_NoNullInFragmentTable ==
    /\ (prog \in FragmentProgs /\ Written) =>
          \A f \in Range(output_file.rows) : f.nulls = {}
    /\ (prog \in GeneratorProgs /\ \E f \in Range(all_fragments) : f.nulls # {}) =>
          ~Written
    /\ (prog = "fragment_file_maker" /\ Written) =>
          \A i \in DOMAIN output_file.rows :
              /\ ~excel_file.rows[i].cpus.ok => output_file.rows[i].cpu_count = 1
              /\ ~excel_file.rows[i].util.ok => output_file.rows[i].cpu_usage = 0

\* a fixed-rate run over a record with a missing cpu_capacity cell built its
\* fragments, reached the table conversion and ended without output
C16_Witness ==
    /\ prog \in GeneratorProgs
    /\ pc = "done"
    /\ vm_idx = Len(task_df)
    /\ \E f \in Range(all_fragments) : f.nulls # {}
    /\ outcome = "raised"
    /\ ~Written

ZeroCapacity(r) == r.cpu_capacity = 0 /\ r.nan = {}

\* the positions record i's fragments take in the table
SliceOf(i) == ((i - 1) * fragments_per_vm + 1)..(i * fragments_per_vm)

\* C17: a zero-capacity record is never rejected and never raises: in every
\* written table each such record has the full slice count of fragments, all
\* with cpu_usage 0; the validator's usage check passes for it; and a run
\* over well-formed records (string ids, no missing cell, at least one slice)
\* returns normally whether or not a record has zero capacity.
C17_ZeroCapacityGivesZeroFragments ==
    /\ (prog \in GeneratorProgs /\ ~synthetic /\ Written) =>
          /\ Len(output_file.rows) = Len(task_df) * fragments_per_vm
          /\ \A i \in DOMAIN task_df :
                ZeroCapacity(task_df[i]) =>
                    \A k \in SliceOf(i) :
                        /\ output_file.rows[k].id = PyStr(task_df[i].id)
                        /\ output_file.rows[k].cpu_usage = 0
    /\ (prog = "fragment_validator" /\ ~synthetic /\ pc = "done" /\ outcome = "returned") =>
          \A i \in DOMAIN task_df :
              (/\ ZeroCapacity(task_df[i])
               /\ \A j \in DOMAIN task_df : j # i => task_df[j].id # task_df[i].id) =>
                  \E e \in ReportEntries :
                      /\ e.vm_id = PyStr(task_df[i].id)
                      /\ e.expected_cpu_usage = 0
                      /\ e.cpu_usage_match
    /\ (/\ prog \in GeneratorProgs
        /\ ~synthetic
        /\ pc = "done"
        /\ fragments_per_vm > 0
        /\ task_df # <<>>
        /\ \A r \in Range(task_df) : r.id.tag = "str" /\ r.nan = {}) =>
          outcome = "returned" /\ Written

\* a finished run over a zero-capacity record and a record with capacity, at a
\* positive usage fraction
C17_Witness ==
    /\ prog = "fragment_validator"
    /\ ~synthetic
    /\ pc = "done"
    /\ Written
    /\ usage_percentage > 0
    /\ \E r \in Range(task_df) : ZeroCapacity(r) /\ r.cpu_count > 0
    /\ \E r \in Range(task_df) : r.cpu_capacity > 0
    /\ \E f \in Range(output_file.rows) : f.cpu_usage > 0

\* the table one invocation on the run's inputs writes: the one whose
\* random.randint draws follow pattern 0 and whose random.choice draws all
\* give 300000
ReferenceRows ==
    IF prog \in GeneratorProgs
    THEN LET t == IF UseTaskFile(prog, task_file)
                  THEN task_file.rows
                  ELSE generate_synthetic_vms(NumSyntheticVMs, 0)
             n == FragmentsPerVm(duration_tenths)
         IN  [k \in 1..(Len(t) * n) |->
                 VmFragments(prog, t[((k - 1) \div n) + 1], usage_percentage, n)[1]]
    ELSE [i \in 1..Len(excel_file.rows) |->
             ExcelFragment(i - 1, excel_file.rows[i], 300000)]

\* C18 as stated: the fragment table is a function of the arguments and the
\* input file alone, so every invocation on the same inputs writes the table
\* the reference invocation writes, also when the task file is absent and in
\* the one-fragment-per-VM maker.
C18_OutputIsFunctionOfInputs ==
    (prog \in FragmentProgs /\ Written) => output_file.rows = ReferenceRows

\* int(s) for a string of decimal digits
RECURSIVE StrToInt(_)
StrToInt(s) ==
    IF s = <<>> THEN 0
    ELSE 10 * StrToInt(SubSeq(s, 1, Len(s) - 1)) + (s[Len(s)] - ChZero)

\* C19: when the Excel maker succeeds, the table holds exactly one fragment
\* per sheet row, the fragment at 1-based position k (0-based row k - 1) has
\* the id str(k), the ids are pairwise distinct, and every duration is one of
\* 300000, 600000, 900000.
C19_OneFragmentPerSheetRow ==
    (prog = "fragment_file_maker" /\ Written) =>
        LET rows == output_file.rows
        IN  /\ Len(rows) = Len(excel_file.rows)
            /\ \A k \in DOMAIN rows :
                  /\ rows[k].id = IntToStr(k)
                  /\ StrToInt(rows[k].id) = k
                  /\ \A c \in Range(rows[k].id) : c \in ChZero..(ChZero + 9)
                  /\ rows[k].duration \in {300000, 600000, 900000}
            /\ \A j, k \in DOMAIN rows : j # k => rows[j].id # rows[k].id

\* the maker returned after writing a table of two fragments with different
\* durations
C19_Witness ==
    /\ prog = "fragment_file_maker"
    /\ pc = "done"
    /\ outcome = "returned"
    /\ Written
    /\ Len(output_file.rows) = 2
    /\ output_file.rows[1].duration # output_file.rows[2].duration

\* some step of the conversion raises for the run's inputs
StepRaises ==
    \/ input_path.kind = "corrupt"
    \/ /\ input_path.kind = "table"
       /\ write_error_at \in 1..NumBatches(Len(input_path.rows), chunksize)

\* C20 as stated: parquet_to_csv_chunked returns True only when the output
\* CSV exists and holds every row of the input, in order; it returns False
\* and leaves the output path untouched when the input does not exist; it
\* returns False when a step raises.
C20_TrueOnlyWhenConverted ==
    (prog = "parquet_to_csv" /\ pc = "done") =>
        /\ success = "True" =>
              /\ output_path.csv.exists
              /\ output_path.csv.rows = input_path.rows
        /\ input_path.kind = "missing" =>
              success = "False" /\ output_path = output_before
        /\ StepRaises => success = "False"

\* the task file cannot be used: no path or no file at it, a file
\* read_parquet cannot read, or a table lacking a column the script requires
TaskFileUnusable ==
    \/ task_file.kind \in {"none", "unreadable"}
    \/ /\ task_file.kind = "table"
       /\ ~(RequiredColumns(prog) \subseteq task_file.columns)

\* C21: once the table is loaded, synthetic VMs are in use exactly when the
\* task file is unusable; they are then 10 VMs with the ids vm-1000 ..
\* vm-1009, pairwise distinct, each with cpu_count in 2..16 and
\* cpu_capacity = cpu_count * 1000; otherwise the table is the file's.
C21_SyntheticFallback ==
    (prog \in GeneratorProgs /\ pc \notin {"start", "load"}) =>
        /\ synthetic <=> TaskFileUnusable
        /\ synthetic =>
              /\ Len(task_df) = 10
              /\ \A j \in DOMAIN task_df :
                    /\ task_df[j].id = StrId(<<118, 109, 45, 49, 48, 48, 48 + (j - 1)>>)
                    /\ task_df[j].cpu_count \in 2..16
                    /\ task_df[j].cpu_capacity = task_df[j].cpu_count * 1000
              /\ \A i, j \in DOMAIN task_df : i # j => task_df[i].id # task_df[j].id
        /\ ~synthetic => task_df = task_file.rows

\* a run whose task table lacks a required column finished on synthetic VMs
\* that do not all have the same CPU count
C21_Witness ==
    /\ prog \in GeneratorProgs
    /\ pc = "done"
    /\ task_file.kind = "table"
    /\ synthetic
    /\ \E i, j \in DOMAIN task_df : task_df[i].cpu_count # task_df[j].cpu_count

\* the 1-based positions of the CSV rows whose 'vCenter DC' is RUTH in any case
RuthPositions == {i \in DOMAIN csv_file.rows : Upper(csv_file.rows[i].dc) = RUTH}

TaskMakerWrote == prog = "task_file_maker" /\ Written

\* C22: with n RUTH rows, the task maker's output has max(1, floor(n *
\* subset_fraction)) rows when subset_fraction < 1 and n rows otherwise; the
\* rows stem from pairwise different RUTH rows and are never more than n.
C22_SubsetSelection ==
    TaskMakerWrote =>
        LET n == Cardinality(RuthPositions)
            floor == (n * subset_fraction) \div 100
            rows == output_file.rows
        IN  /\ n >= 1
            /\ subset_fraction < 100 => Len(rows) = (IF floor > 1 THEN floor ELSE 1)
            /\ subset_fraction >= 100 => Len(rows) = n
            /\ Len(rows) <= n
            /\ \A i \in DOMAIN rows : StrToInt(rows[i].id) \in RuthPositions
            /\ \A i, j \in DOMAIN rows : i # j => rows[i].id # rows[j].id

\* three of four RUTH rows were selected
C22_Witness ==
    /\ TaskMakerWrote
    /\ subset_fraction = 75
    /\ Cardinality(RuthPositions) = 4
    /\ Len(output_file.rows) = 3

\* C23: every task the maker writes carries as id the 1-based position its
\* source row has in the unfiltered CSV, that row's 'vCenter DC' is RUTH in
\* some case, the ids are pairwise distinct, and the table is in ascending
\* order of the ids compared as strings.
C23_IdsAreCsvPositions ==
    TaskMakerWrote =>
        LET rows == output_file.rows
        IN  /\ \A i \in DOMAIN rows :
                  LET pos == StrToInt(rows[i].id)
                  IN  /\ pos \in DOMAIN csv_file.rows
                      /\ rows[i].id = IntToStr(pos)
                      /\ Upper(csv_file.rows[pos].dc) = RUTH
                      /\ rows[i].cpu_count = Coerce(csv_file.rows[pos].cpu, 2)
            /\ \A i, j \in DOMAIN rows : i # j => rows[i].id # rows[j].id
            /\ \A i, j \in DOMAIN rows : i < j => StrLess(rows[i].id, rows[j].id)

\* the whole of a file whose RUTH rows are not its first rows was written,
\* and the string order put id "10" before id "2"
C23_Witness ==
    /\ TaskMakerWrote
    /\ 1 \notin RuthPositions
    /\ Len(output_file.rows) = Cardinality(RuthPositions)
    /\ \E i \in DOMAIN output_file.rows :
          /\ i < Len(output_file.rows)
          /\ StrToInt(output_file.rows[i].id) > StrToInt(output_file.rows[i + 1].id)

\* read_csv fails on the run's file with encoding enc
AttemptFails(enc) == ~csv_file.exists \/ enc \notin csv_file.readable

\* the for-else of convert_csv_to_parquet raised its ValueError (the one
\* other exception of the script, detect_encoding's FileNotFoundError, comes
\* before the list of encodings is built)
ValueErrorRaised ==
    prog = "task_file_maker" /\ outcome = "raised" /\ encodings_to_try # <<>>

\* C24: the encodings to try are the detected one, if any, then latin1,
\* ISO-8859-1, cp1252, utf-8-sig; the attempts made are a prefix of that list
\* in that order; every attempt but the last made has failed, so a success
\* ends the loop; the conversion starts only after a successful attempt;
\* ValueError is raised exactly when every encoding of the list failed, and
\* then no table is written.
C24_EncodingFallback ==
    (prog = "task_file_maker" /\ pc # "start" /\ encodings_to_try # <<>>) =>
        /\ encodings_to_try =
              (IF csv_file.chardet /\ csv_file.detected # ""
               THEN <<csv_file.detected>> ELSE <<>>)
              \o <<"latin1", "ISO-8859-1", "cp1252", "utf-8-sig">>
        /\ Len(tried) <= Len(encodings_to_try)
        /\ \A i \in DOMAIN tried : tried[i] = encodings_to_try[i]
        /\ \A i \in DOMAIN tried : i < Len(tried) => AttemptFails(tried[i])
        /\ (pc = "convert" \/ (pc = "done" /\ ~ValueErrorRaised)) =>
              tried # <<>> /\ ~AttemptFails(tried[Len(tried)])
        /\ pc = "done" =>
              (ValueErrorRaised <=>
                  \A i \in DOMAIN encodings_to_try : AttemptFails(encodings_to_try[i]))
        /\ ValueErrorRaised =>
              /\ tried = encodings_to_try
              /\ ~Written

\* the detected encoding and the three that follow failed, and the file was
\* read with the last encoding of the list
C24_Witness ==
    /\ prog = "task_file_maker"
    /\ pc = "done"
    /\ Len(tried) = 5
    /\ tried[1] = csv_file.detected
    /\ ~ValueErrorRaised
    /\ Written

\* row i of the hardware sheet is one csv_to_json appends a host for: its
\* 'CPU name' cell is filled and nothing raises while it is processed
RowAppends(i) ==
    LET row == hardware_sheet.rows[i]
    IN  hardware_sheet.cpu_name_col /\ row.cpu_name /\ row.freq # "text"

RowIsStorage(i) == hardware_sheet.storage_col /\ hardware_sheet.rows[i].storage

\* the rows processed so far that appended a host, in input order
AppendedRows == SelectSeq([i \in 1..vm_idx |-> i], RowAppends)

HostsOfClass(letter) == SelectSeq(cluster, LAMBDA h : h.name[1] = letter)

\* the hosts of one class are numbered 01, 02, ... in the order they were
\* appended, zero padded to two digits
NumberedFromOne(hosts) ==
    \A j \in DOMAIN hosts :
        LET digits == Tail(hosts[j].name)
        IN  /\ Len(digits) >= 2
            /\ \A c \in Range(digits) : c \in ChZero..(ChZero + 9)
            /\ StrToInt(digits) = j
            /\ j >= 10 => digits[1] # ChZero

\* C25: after any prefix of the rows, host_counter is 1 + the number of
\* non-storage hosts appended and storage_counter 1 + the number of storage
\* hosts appended; the hosts of each class are named H01, H02, ... and S01,
\* S02, ... in input order, without gap or duplicate; a row that is skipped
\* or raises appends no host and uses no number, and the rows after it are
\* processed.
C25_HostNumbering ==
    (prog = "csv_to_json" /\ pc \in {"rows", "done"} /\ outcome # "none") =>
        /\ host_counter = 1 + Cardinality({i \in 1..vm_idx : RowAppends(i) /\ ~RowIsStorage(i)})
        /\ storage_counter = 1 + Cardinality({i \in 1..vm_idx : RowAppends(i) /\ RowIsStorage(i)})
        /\ host_counter = 1 + Len(HostsOfClass(72))
        /\ storage_counter = 1 + Len(HostsOfClass(83))
        /\ Len(cluster) = Len(AppendedRows)
        /\ \A k \in DOMAIN cluster :
              /\ cluster[k].name[1] = (IF RowIsStorage(AppendedRows[k]) THEN 83 ELSE 72)
              /\ cluster[k].coreSpeed =
                    (IF hardware_sheet.rows[AppendedRows[k]].freq = "2" THEN 2000 ELSE 0)
        /\ NumberedFromOne(HostsOfClass(72))
        /\ NumberedFromOne(HostsOfClass(83))
        /\ \A j, k \in DOMAIN cluster : j # k => cluster[j].name # cluster[k].name
        /\ pc = "done" => vm_idx = Len(hardware_sheet.rows)

\* csv_to_json returned after a row that appended nothing was followed by a
\* row that appended a host, with hosts of both classes in the cluster
C25_Witness ==
    /\ prog = "csv_to_json"
    /\ pc = "done"
    /\ outcome = "returned"
    /\ \E i \in DOMAIN hardware_sheet.rows :
          ~RowAppends(i) /\ \E j \in DOMAIN hardware_sheet.rows : j > i /\ RowAppends(j)
    /\ HostsOfClass(72) # <<>>
    /\ HostsOfClass(83) # <<>>

\* the tenth host of a class was appended
C25_TenthHost ==
    /\ prog = "csv_to_json"
    /\ host_counter > 10

\* the (MANUFACTURER, MODEL) groups of the frame whose manufacturer is ZANTAZ
\* once stripped and upper-cased and for which get_spec finds a spec
ZantazGroupsWithSpec ==
    {g \in Range(servers_df) :
        /\ Upper(Strip(g.MANUFACTURER)) = ZANTAZ
        /\ get_spec(specs, g.MANUFACTURER, g.MODEL) # None}

GroupSize(g) == Cardinality({i \in DOMAIN servers_df : servers_df[i] = g})

\* C26 as stated: process_excel_data never raises and returns exactly one
\* cluster per ZANTAZ group with a registered spec, whose count is the number
\* of rows of the group; no other group yields a cluster.
C26_OneClusterPerZantazGroup ==
    (prog = "process_excel_data" /\ pc = "done") =>
        /\ outcome = "returned"
        /\ Len(clusters) = Cardinality(ZantazGroupsWithSpec)
        /\ \A g \in ZantazGroupsWithSpec :
              \E k \in DOMAIN clusters :
                  /\ clusters[k].name = SpecKey(g.MANUFACTURER, g.MODEL)
                  /\ clusters[k].count = GroupSize(g)

\* the (manufacturer, model) pairs get_spec is asked for
ProbePairs == {ZANTAZ, ZantazLower, HP, ZantazZ2} \X {Model059, ModelZ2059}

\* the add_spec calls made with exactly this pair
CallsWith(pair) ==
    {i \in DOMAIN add_calls : add_calls[i][1] = pair[1] /\ add_calls[i][2] = pair[2]}

\* C27 as stated: after any sequence of add_spec calls, get_spec(m, model)
\* returns the spec of the latest call made with exactly that pair, and None
\* when no call was made with that pair.
C27_RegistryRoundTrip ==
    prog = "process_excel_data" =>
        \A pair \in ProbePairs :
            LET calls == CallsWith(pair)
                found == get_spec(specs, pair[1], pair[2])
            IN  IF calls = {}
                THEN found = None
                ELSE \E last \in calls :
                        /\ \A i \in calls : i <= last
                        /\ found = add_calls[last][3]

====
